---- MODULE Spec2Model ----
(***************************************************************************)
(* Product dashboard: the proxy route handlers (app/api/products and       *)
(* app/api/product, in the three revisions the repository holds) and the   *)
(* client API wrapper (lib/api.ts).                                        *)
(*                                                                         *)
(* Revision A: route.ts:1-86 and part_001:173-422 (external-api.com base); *)
(* revision B: route.ts:87-163 and part_002 (BACKEND_URL);                 *)
(* revision C: part_001:1-172 (EXTERNAL_API_BASE from the environment).    *)
(*                                                                         *)
(* Strings the code inspects character by character (query values, ids,    *)
(* search terms) are sequences of one-character strings; JavaScript's      *)
(* null/undefined is None and a present value v is Some(v).                *)
(***************************************************************************)
EXTENDS Integers, Sequences, FiniteSets, TLC

VARIABLES pc, request, outbound, backend, response,
          clientCall, clientRequest, transport, clientResult, ui

proxyVars == <<request, outbound, backend, response>>
clientVars == <<clientCall, clientRequest, transport, clientResult>>
vars == <<pc, proxyVars, clientVars, ui>>

\* ---------------------------------------------------------------- bounds
MaxNumLen == 1
MaxSearchLen == 2
MaxIdLen == 1
MaxTitleLen == 1
MaxPage == 2

\* ------------------------------------------------------ program constants
ReadTimeoutMs == 10000
WriteTimeoutMs == 15000
ClientTimeoutMs == 15000

\* ------------------------------------------------- JavaScript value model
None == <<>>
Some(v) == <<v>>
IsSome(o) == o # <<>>
Val(o) == o[1]

\* x || d on an optional string: null and "" are falsy
OrDefault(o, d) == IF IsSome(o) /\ Val(o) # <<>> THEN Val(o) ELSE d

\* truthiness of an optional string: if (search), if (!productId), if (authToken)
Truthy(o) == IsSome(o) /\ Val(o) # <<>>

StrUpTo(A, n) == UNION {[1..k -> A] : k \in 0..n}

Digits == {"0", "1", "2", "3", "4", "5", "6", "7", "8", "9"}

DigitVal(c) ==
  CASE c = "0" -> 0 [] c = "1" -> 1 [] c = "2" -> 2 [] c = "3" -> 3
    [] c = "4" -> 4 [] c = "5" -> 5 [] c = "6" -> 6 [] c = "7" -> 7
    [] c = "8" -> 8 [] c = "9" -> 9

DigitChar(d) ==
  CASE d = 0 -> "0" [] d = 1 -> "1" [] d = 2 -> "2" [] d = 3 -> "3"
    [] d = 4 -> "4" [] d = 5 -> "5" [] d = 6 -> "6" [] d = 7 -> "7"
    [] d = 8 -> "8" [] d = 9 -> "9"

\* a JavaScript number that is an integer or NaN
NaN == [nan |-> TRUE, v |-> 0]
Num(i) == [nan |-> FALSE, v |-> i]

RECURSIVE DigitsToInt(_)
DigitsToInt(d) ==
  IF d = <<>> THEN 0
  ELSE DigitsToInt(SubSeq(d, 1, Len(d) - 1)) * 10 + DigitVal(d[Len(d)])

\* the longest prefix of s made of decimal digits
LeadDigits(s) ==
  LET n == CHOOSE k \in 0..Len(s) :
             /\ \A i \in 1..k : s[i] \in Digits
             /\ (k = Len(s) \/ s[k + 1] \notin Digits)
  IN SubSeq(s, 1, n)

\* parseInt(s) on strings without sign, whitespace or 0x prefix: the leading
\* digits, NaN when there are none
parseInt(s) ==
  IF LeadDigits(s) = <<>> THEN NaN ELSE Num(DigitsToInt(LeadDigits(s)))

JsSub(a, b) == IF a.nan \/ b.nan THEN NaN ELSE Num(a.v - b.v)
JsMul(a, b) == IF a.nan \/ b.nan THEN NaN ELSE Num(a.v * b.v)

RECURSIVE NatToString(_)
NatToString(n) ==
  IF n < 10 THEN <<DigitChar(n)>>
  ELSE NatToString(n \div 10) \o <<DigitChar(n % 10)>>

\* Number.prototype.toString for an integer or NaN
toString(x) ==
  IF x.nan THEN <<"N", "a", "N">>
  ELSE IF x.v < 0 THEN <<"-">> \o NatToString(0 - x.v)
  ELSE NatToString(x.v)

\* a trim that leaves the string as it is
NoTrim(s) == s

\* String.prototype.trim over the alphabet used here (" " is the whitespace)
RECURSIVE TrimLeft(_)
TrimLeft(s) == IF s # <<>> /\ s[1] = " " THEN TrimLeft(Tail(s)) ELSE s

RECURSIVE TrimRight(_)
TrimRight(s) ==
  IF s # <<>> /\ s[Len(s)] = " " THEN TrimRight(SubSeq(s, 1, Len(s) - 1)) ELSE s

trim(s) == TrimRight(TrimLeft(s))

\* --------------------------------------------------------------- requests
NumChars == {"0", "1", "2", "a"}
SearchChars == {" ", "a"}
IdChars == {" ", "p"}

QueryNumbers == {None} \cup {Some(s) : s \in StrUpTo(NumChars, MaxNumLen)}
Searches == {None} \cup {Some(s) : s \in StrUpTo(SearchChars, MaxSearchLen)}
QueryIds == {None} \cup {Some(s) : s \in StrUpTo(IdChars, MaxIdLen)}

\* header values are sequences of words; `Bearer ${t}` puts a word in front
AuthHeaders == {None, Some(<<>>), Some(<<"tok">>), Some(<<"Bearer", "tok">>)}

\* a JSON value of a request body field; prices are in thousandths
JUndef == [t |-> "undefined", s |-> <<>>, n |-> 0]
JNull == [t |-> "null", s |-> <<>>, n |-> 0]
JStr(str) == [t |-> "string", s |-> str, n |-> 0]
JNum(num) == [t |-> "number", s |-> <<>>, n |-> num]

\* !v
Falsy(v) ==
  \/ v.t \in {"undefined", "null"}
  \/ v.t = "string" /\ v.s = <<>>
  \/ v.t = "number" /\ v.n = 0

\* v === undefined || v === null
Nullish(v) == v.t \in {"undefined", "null"}

\* a request without a JSON body: request.json() throws on it
NoBody == [parsed |-> FALSE, product_id |-> JUndef, product_title |-> JUndef,
           product_price |-> JUndef]

BodyTitles == {JUndef, JNull} \cup {JStr(t) : t \in StrUpTo({"t"}, MaxTitleLen)}
BodyPrices == {JUndef, JNull, JNum(-10), JNum(0), JNum(5000), JStr(<<"5">>)}
BodyIds == {JUndef} \cup {JStr(i) : i \in StrUpTo({"p"}, MaxIdLen)}

NoRequest == [handler |-> "none"]
NoCall == [method |-> "none"]
NoOutcome == [kind |-> "none", status |-> 0, data |-> None]
NoResponse == [http |-> 0]
NoClientCall == [method |-> "none"]
NoResult == [thrown |-> FALSE, value |-> [none |-> TRUE]]
NoPage == [draft |-> "none"]

ListHandlers == {"GET_products_A", "GET_products_B", "GET_products_C"}
GetHandlers == {"GET_product_A", "GET_product_B", "GET_product_C"}
PostHandlers == {"POST_product_A", "POST_product_B", "POST_product_C"}
PutHandlers == {"PUT_product_A", "PUT_product_B", "PUT_product_C"}

ListRequests ==
  [handler : ListHandlers, page : QueryNumbers, limit : QueryNumbers,
   search : Searches, product_id : {None}, productId : {None},
   auth : AuthHeaders, body : {NoBody}]

GetRequests ==
  [handler : GetHandlers, page : {None}, limit : {None}, search : {None},
   product_id : QueryIds, productId : QueryIds,
   auth : AuthHeaders, body : {NoBody}]

PostBodies ==
  {NoBody} \cup [parsed : {TRUE}, product_id : {JUndef},
                 product_title : BodyTitles, product_price : BodyPrices]

PutBodies ==
  {NoBody} \cup [parsed : {TRUE}, product_id : BodyIds,
                 product_title : BodyTitles, product_price : BodyPrices]

PostRequests ==
  [handler : PostHandlers, page : {None}, limit : {None}, search : {None},
   product_id : {None}, productId : {None},
   auth : AuthHeaders, body : PostBodies]

PutRequests ==
  [handler : PutHandlers, page : {None}, limit : {None}, search : {None},
   product_id : {None}, productId : {None},
   auth : AuthHeaders, body : PutBodies]

Requests == ListRequests \cup GetRequests \cup PostRequests \cup PutRequests

\* ------------------------------------------------------- external backend
BackendErrorStatuses == {400, 404, 409, 500}

BackendErrorBodies ==
  {[message |-> None, error_code |-> None],
   [message |-> Some("backend message"), error_code |-> Some("BACKEND_CODE")]}

\* the outcomes of one axios call; axios raises its timeout only when a
\* timeout is configured for the call
Outcomes(call) ==
  {[kind |-> "ok", status |-> 200, data |-> None],
   [kind |-> "network", status |-> 0, data |-> None]}
  \cup (IF call.timeout > 0
        THEN {[kind |-> "timeout", status |-> 0, data |-> None]} ELSE {})
  \cup {[kind |-> "http", status |-> s, data |-> Some(b)] :
          s \in BackendErrorStatuses, b \in BackendErrorBodies}

\* the error object axios rejects with: error.code, error.response, error.message
AxiosError(o) ==
  CASE o.kind = "timeout" ->
         [code |-> Some("ECONNABORTED"), response |-> None,
          message |-> "timeout exceeded"]
    [] o.kind = "network" ->
         [code |-> Some("ERR_NETWORK"), response |-> None,
          message |-> "Network Error"]
    [] o.kind = "http" ->
         [code |-> Some("ERR_BAD_RESPONSE"),
          response |-> Some([status |-> o.status, data |-> Val(o.data)]),
          message |-> "Request failed with status code"]

DataNull == "null"
DataEmptyArray == "[]"
DataProducts == "[products]"
DataProduct == "{product}"

\* the body the backend answers a successful call with (ApiResponse<T>)
BackendBody(call) ==
  IF call.path = "/products"
  THEN [status_code |-> <<"2", "0", "0">>, is_success |-> TRUE,
        error_code |-> None, data |-> DataProducts,
        pagination |-> "pagination"]
  ELSE [status_code |-> <<"2", "0", "0">>, is_success |-> TRUE,
        error_code |-> None, data |-> DataProduct]

\* ------------------------------------------------------ list proxy (GET)
\* the offset of a handler that multiplies the page itself by the limit
OffsetFromPage(page, limit) == JsMul(parseInt(page), parseInt(limit))

\* offset = (parseInt(page) - 1) * parseInt(limit)
Offset(page, limit) == JsMul(JsSub(parseInt(page), Num(1)), parseInt(limit))

\* ...(authToken && { Authorization: `Bearer ${authToken}` })     (revision A)
BearerHeader(auth) ==
  IF Truthy(auth) THEN Some(<<"Bearer">> \o Val(auth)) ELSE None

\* if (authorization) headers.Authorization = authorization  (revisions B, C)
SameHeader(auth) == IF Truthy(auth) THEN auth ELSE None

\* if (search) params.append('search', search)
SearchParam(search) == IF Truthy(search) THEN search ELSE None

ListCall(req, auth, timeout) ==
  LET page == OrDefault(req.page, <<"1">>)
      limit == OrDefault(req.limit, <<"1", "0">>)
  IN [method |-> "GET", path |-> "/products",
      page |-> Some(page), limit |-> Some(limit),
      offset |-> Some(toString(Offset(page, limit))),
      search |-> SearchParam(req.search),
      product_id |-> None, auth |-> auth, body |-> NoBody,
      timeout |-> timeout]

Envelope(sc, ok, ec, d, msg) ==
  [status_code |-> sc, is_success |-> ok, error_code |-> ec, data |-> d,
   message |-> msg]

\* x?.message || fallback on the backend's error body
MessageOr(data, fallback) ==
  IF IsSome(data.message) THEN Val(data.message) ELSE fallback

\* catch block of revision A's list handler
ListErrorA(error) ==
  IF error.code = Some("ECONNABORTED")
  THEN [http |-> 408,
        body |-> Envelope(<<"4", "0", "8">>, FALSE, Some("REQUEST_TIMEOUT"),
                          DataEmptyArray, "Request timeout")]
  ELSE IF IsSome(error.response)
  THEN [http |-> Val(error.response).status,
        body |-> Envelope(toString(Num(Val(error.response).status)), FALSE,
                          Some("EXTERNAL_API_ERROR"), DataEmptyArray,
                          MessageOr(Val(error.response).data,
                                    "External API error"))]
  ELSE [http |-> 500,
        body |-> Envelope(<<"5", "0", "0">>, FALSE,
                          Some("INTERNAL_SERVER_ERROR"), DataEmptyArray,
                          "Failed to fetch products")]

\* catch block of revision B's list handler
ListErrorB(error) ==
  IF IsSome(error.response)
  THEN LET r == Val(error.response)
       IN [http |-> r.status,
           body |-> Envelope(toString(Num(r.status)), FALSE,
                             IF IsSome(r.data.error_code)
                             THEN r.data.error_code
                             ELSE Some("INTERNAL_ERROR"),
                             DataEmptyArray,
                             MessageOr(r.data, error.message))]
  ELSE [http |-> 500,
        body |-> Envelope(<<"5", "0", "0">>, FALSE, Some("INTERNAL_ERROR"),
                          DataEmptyArray, error.message)]

\* catch block of revision C's handlers: { error, details }
UnwrappedError(what, error) ==
  [http |-> 500, body |-> [error |-> what, details |-> error.message]]

\* return NextResponse.json(response.data)
PassThrough(call) == [http |-> 200, body |-> BackendBody(call)]

\* what request.json() throws on an unparsable body
ParseError == [code |-> None, response |-> None, message |-> "Unexpected token"]

\* error.response?.status === s
StatusIs(error, s) == IsSome(error.response) /\ Val(error.response).status = s

\* error.response.data?.message / error.response?.data?.message || fallback
ErrorMessageOr(error, fallback) ==
  IF IsSome(error.response) THEN MessageOr(Val(error.response).data, fallback)
  ELSE fallback

Failure(http, sc, ec, msg) ==
  [http |-> http, body |-> Envelope(sc, FALSE, Some(ec), DataNull, msg)]

MissingProductId(msg) ==
  Failure(400, <<"4", "0", "0">>, "MISSING_PRODUCT_ID", msg)

InvalidPrice ==
  Failure(400, <<"4", "0", "0">>, "INVALID_PRICE",
          "Price must be a positive number")

\* catch block of revision A's GET
GetErrorA(error) ==
  IF StatusIs(error, 404)
  THEN Failure(404, <<"4", "0", "4">>, "PRODUCT_NOT_FOUND", "Product not found")
  ELSE Failure(500, <<"5", "0", "0">>, "INTERNAL_SERVER_ERROR",
               "Failed to fetch product")

\* catch block of revision A's POST
PostErrorA(error) ==
  IF StatusIs(error, 400)
  THEN Failure(400, <<"4", "0", "0">>, "VALIDATION_ERROR",
               ErrorMessageOr(error, "Validation error"))
  ELSE IF StatusIs(error, 409)
  THEN Failure(409, <<"4", "0", "9">>, "PRODUCT_EXISTS",
               "Product already exists")
  ELSE Failure(500, <<"5", "0", "0">>, "INTERNAL_SERVER_ERROR",
               "Failed to create product")

\* catch block of revision A's PUT
PutErrorA(error) ==
  IF StatusIs(error, 404)
  THEN Failure(404, <<"4", "0", "4">>, "PRODUCT_NOT_FOUND", "Product not found")
  ELSE IF StatusIs(error, 400)
  THEN Failure(400, <<"4", "0", "0">>, "VALIDATION_ERROR",
               ErrorMessageOr(error, "Validation error"))
  ELSE Failure(500, <<"5", "0", "0">>, "INTERNAL_SERVER_ERROR",
               "Failed to update product")

\* catch blocks of revision B's single-product handlers
ProductErrorB(fallback, error) ==
  Failure(500, <<"5", "0", "0">>, "INTERNAL_ERROR",
          ErrorMessageOr(error, fallback))

\* the catch block of each handler
CatchBlock(handler, error) ==
  CASE handler = "GET_products_A" -> ListErrorA(error)
    [] handler = "GET_products_B" -> ListErrorB(error)
    [] handler = "GET_products_C" ->
         UnwrappedError("Failed to fetch products", error)
    [] handler = "GET_product_A" -> GetErrorA(error)
    [] handler = "GET_product_B" ->
         ProductErrorB("Failed to fetch product", error)
    [] handler = "GET_product_C" ->
         UnwrappedError("Failed to fetch product", error)
    [] handler = "POST_product_A" -> PostErrorA(error)
    [] handler = "POST_product_B" ->
         ProductErrorB("Failed to create product", error)
    [] handler = "POST_product_C" ->
         UnwrappedError("Failed to create product", error)
    [] handler = "PUT_product_A" -> PutErrorA(error)
    [] handler = "PUT_product_B" ->
         ProductErrorB("Failed to update product", error)
    [] handler = "PUT_product_C" ->
         UnwrappedError("Failed to update product", error)

\* ------------------------------------------------------------- actions
Init ==
  /\ pc = "idle"
  /\ request = NoRequest
  /\ outbound = NoCall
  /\ backend = NoOutcome
  /\ response = NoResponse
  /\ clientCall = NoClientCall
  /\ clientRequest = NoCall
  /\ transport = NoOutcome
  /\ clientResult = NoResult
  /\ ui = NoPage

\* a browser request reaches one of the route handlers
Receive ==
  /\ pc = "idle"
  /\ request' \in Requests
  /\ pc' = "handling"
  /\ UNCHANGED <<outbound, backend, response, clientVars, ui>>

\* one run of a handler that makes the call `call`: the backend's outcome is
\* drawn, and the handler answers from its try block or from its catch block
Forward(call) ==
  \E o \in Outcomes(call) :
    /\ outbound' = call
    /\ backend' = o
    /\ response' = IF o.kind = "ok" THEN PassThrough(call)
                   ELSE CatchBlock(request.handler, AxiosError(o))
    /\ pc' = "done"
    /\ UNCHANGED <<request, clientVars, ui>>

GET_products_A ==
  /\ pc = "handling"
  /\ request.handler = "GET_products_A"
  /\ Forward(ListCall(request, BearerHeader(request.auth), ReadTimeoutMs))

GET_products_B ==
  /\ pc = "handling"
  /\ request.handler = "GET_products_B"
  /\ Forward(ListCall(request, SameHeader(request.auth), ReadTimeoutMs))

GET_products_C ==
  /\ pc = "handling"
  /\ request.handler = "GET_products_C"
  /\ Forward(ListCall(request, SameHeader(request.auth), 0))

\* ------------------------------------------- single-product proxy handlers
ProductCall(method, id, body, auth, timeout) ==
  [method |-> method, path |-> "/product",
   page |-> None, limit |-> None, offset |-> None, search |-> None,
   product_id |-> id, auth |-> auth, body |-> body, timeout |-> timeout]

\* a handler returns without calling the backend
Reply(resp) ==
  /\ outbound' = NoCall
  /\ backend' = NoOutcome
  /\ response' = resp
  /\ pc' = "done"
  /\ UNCHANGED <<request, clientVars, ui>>

\* typeof price !== 'number' || price < 0
BadPrice(price) == price.t # "number" \/ price.n < 0

GET_product_A ==
  /\ pc = "handling"
  /\ request.handler = "GET_product_A"
  /\ IF ~Truthy(request.productId)
     THEN Reply(MissingProductId("Product ID is required"))
     ELSE Forward(ProductCall("GET", request.productId, NoBody,
                              BearerHeader(request.auth), ReadTimeoutMs))

GET_product_B ==
  /\ pc = "handling"
  /\ request.handler = "GET_product_B"
  /\ IF ~Truthy(request.product_id)
     THEN Reply(MissingProductId("Product ID is required"))
     ELSE Forward(ProductCall("GET", request.product_id, NoBody,
                              SameHeader(request.auth), 0))

GET_product_C ==
  /\ pc = "handling"
  /\ request.handler = "GET_product_C"
  /\ IF ~Truthy(request.product_id)
     THEN Reply([http |-> 400, body |-> [error |-> "Product ID is required"]])
     ELSE Forward(ProductCall("GET", request.product_id, NoBody,
                              SameHeader(request.auth), 0))

POST_product_A ==
  /\ pc = "handling"
  /\ request.handler = "POST_product_A"
  /\ LET body == request.body
     IN IF ~body.parsed THEN Reply(CatchBlock(request.handler, ParseError))
        ELSE IF Falsy(body.product_title) \/ Nullish(body.product_price)
        THEN Reply(Failure(400, <<"4", "0", "0">>, "VALIDATION_ERROR",
                           "Product title and price are required"))
        ELSE IF BadPrice(body.product_price) THEN Reply(InvalidPrice)
        ELSE Forward(ProductCall("POST", None, body,
                                 BearerHeader(request.auth), WriteTimeoutMs))

POST_product_B ==
  /\ pc = "handling"
  /\ request.handler = "POST_product_B"
  /\ IF ~request.body.parsed
     THEN Reply(CatchBlock(request.handler, ParseError))
     ELSE Forward(ProductCall("POST", None, request.body,
                              SameHeader(request.auth), 0))

POST_product_C ==
  /\ pc = "handling"
  /\ request.handler = "POST_product_C"
  /\ IF ~request.body.parsed
     THEN Reply(CatchBlock(request.handler, ParseError))
     ELSE Forward(ProductCall("POST", None, request.body,
                              SameHeader(request.auth), 0))

PUT_product_A ==
  /\ pc = "handling"
  /\ request.handler = "PUT_product_A"
  /\ LET body == request.body
     IN IF ~body.parsed THEN Reply(CatchBlock(request.handler, ParseError))
        ELSE IF Falsy(body.product_id)
        THEN Reply(MissingProductId("Product ID is required for update"))
        ELSE IF ~Nullish(body.product_price) /\ BadPrice(body.product_price)
        THEN Reply(InvalidPrice)
        ELSE Forward(ProductCall("PUT", None, body,
                                 BearerHeader(request.auth), WriteTimeoutMs))

PUT_product_B ==
  /\ pc = "handling"
  /\ request.handler = "PUT_product_B"
  /\ IF ~request.body.parsed
     THEN Reply(CatchBlock(request.handler, ParseError))
     ELSE Forward(ProductCall("PUT", None, request.body,
                              SameHeader(request.auth), 0))

PUT_product_C ==
  /\ pc = "handling"
  /\ request.handler = "PUT_product_C"
  /\ IF ~request.body.parsed
     THEN Reply(CatchBlock(request.handler, ParseError))
     ELSE Forward(ProductCall("PUT", None, request.body,
                              SameHeader(request.auth), 0))

\* the response is sent; handlers keep no state between invocations
Finish ==
  /\ pc = "done"
  /\ pc' = "idle"
  /\ request' = NoRequest
  /\ outbound' = NoCall
  /\ backend' = NoOutcome
  /\ response' = NoResponse
  /\ UNCHANGED <<clientVars, ui>>

\* ------------------------------------------------ client wrapper (lib/api.ts)
PageSize == 10

\* params of getProducts: page?: number, limit?: number, search?: string
ListParams ==
  [page : {None} \cup {Some(n) : n \in 0..MaxPage},
   limit : {None, Some(PageSize)},
   search : Searches]

\* auth.currentUser (a token the identity provider would issue, or no user)
\* and whether getIdToken rejects
Sessions == [user : {None, Some(<<"tok">>)}, tokenFails : BOOLEAN]

ClientRequest(method, page, limit, search, auth, timeout) ==
  [method |-> method, path |-> "/products",
   page |-> page, limit |-> limit, offset |-> None, search |-> search,
   product_id |-> None, auth |-> auth, body |-> NoBody, timeout |-> timeout]

\* if (params?.page) queryParams.append('page', params.page.toString())
NumberParam(n) ==
  IF IsSome(n) /\ Val(n) # 0 THEN Some(toString(Num(Val(n)))) ELSE None

\* if (params?.search && params.search.trim()) append(params.search.trim())
TrimmedSearchParam(search) ==
  IF Truthy(search) /\ trim(Val(search)) # <<>>
  THEN Some(trim(Val(search))) ELSE None

\* if (params?.search && params.search.trim()) append(params.search)
CheckedSearchParam(search) ==
  IF Truthy(search) /\ trim(Val(search)) # <<>> THEN search ELSE None

\* request interceptor of the error-handling client: the token as it is,
\* and no token when getIdToken rejects
InterceptToken(session) ==
  IF IsSome(session.user) /\ ~session.tokenFails THEN session.user ELSE None

\* request interceptor of the Bearer client: `Bearer ${token}`
InterceptBearer(session) ==
  IF IsSome(session.user) THEN Some(<<"Bearer">> \o Val(session.user)) ELSE None

\* the fallback getProducts returns from its catch block
ProductsFallback(params) ==
  [status_code |-> <<"5", "0", "0">>, is_success |-> FALSE,
   error_code |-> Some("FETCH_PRODUCTS_ERROR"), data |-> DataEmptyArray,
   pagination |->
     [page |-> IF IsSome(params.page) /\ Val(params.page) # 0
               THEN Val(params.page) ELSE 1,
      limit |-> IF IsSome(params.limit) /\ Val(params.limit) # 0
                THEN Val(params.limit) ELSE PageSize,
      total |-> 0, total_pages |-> 0,
      search |-> IF Truthy(params.search) THEN params.search ELSE None]]

\* a rejection no catch block handles leaves the method as an exception
Throw(error) == [thrown |-> TRUE, value |-> [message |-> error.message]]

\* the envelope the single-product methods return from their catch blocks
ClientFailure(ec) ==
  [status_code |-> <<"5", "0", "0">>, is_success |-> FALSE,
   error_code |-> Some(ec), data |-> DataNull]

\* new Error(msg)
LocalError(msg) == [code |-> None, response |-> None, message |-> msg]

\* a catch block that turns every error into the failure envelope
NeverRethrown(error) == FALSE

\* if (error.message && !error.response) throw error
Rethrown(error) == error.message # "" /\ ~IsSome(error.response)

\* what a method makes of a rejected request: the fallback of its catch
\* block, or the exception when it has none
Rejected(method, params, error) ==
  CASE method = "getProducts_handled" ->
         [thrown |-> FALSE, value |-> ProductsFallback(params)]
    [] method = "getProduct_handled" ->
         [thrown |-> FALSE, value |-> ClientFailure("FETCH_PRODUCT_ERROR")]
    [] method = "createProduct_handled" ->
         IF Rethrown(error) THEN Throw(error)
         ELSE [thrown |-> FALSE, value |-> ClientFailure("CREATE_PRODUCT_ERROR")]
    [] method = "updateProduct_handled" ->
         IF Rethrown(error) THEN Throw(error)
         ELSE [thrown |-> FALSE, value |-> ClientFailure("UPDATE_PRODUCT_ERROR")]
    [] OTHER -> Throw(error)

\* one request of the client to the proxy: the outcome is drawn; a resolved
\* request returns response.data
Send(method, params, req) ==
  \E o \in Outcomes(req) :
    /\ clientRequest' = req
    /\ transport' = o
    /\ clientResult' = IF o.kind = "ok"
                       THEN [thrown |-> FALSE, value |-> BackendBody(req)]
                       ELSE Rejected(method, params, AxiosError(o))
    /\ pc' = "returned"
    /\ UNCHANGED <<proxyVars, ui>>

\* ApiService.getProducts of the error-handling client (part_007:86)
getProducts_handled ==
  /\ pc = "idle"
  /\ \E params \in ListParams, session \in Sessions :
       /\ clientCall' = [method |-> "getProducts_handled", params |-> params,
                         session |-> session]
       /\ Send("getProducts_handled", params,
               ClientRequest("GET", NumberParam(params.page),
                             NumberParam(params.limit),
                             TrimmedSearchParam(params.search),
                             InterceptToken(session), ClientTimeoutMs))

\* ApiService.getProducts of the client with setAuthToken (part_007:389);
\* session.user is the header setAuthToken left in the defaults
getProducts_defaults ==
  /\ pc = "idle"
  /\ \E params \in ListParams, session \in Sessions :
       /\ ~session.tokenFails
       /\ clientCall' = [method |-> "getProducts_defaults", params |-> params,
                         session |-> session]
       /\ Send("getProducts_defaults", params,
               ClientRequest("GET", NumberParam(params.page),
                             NumberParam(params.limit),
                             SearchParam(params.search),
                             session.user, 0))

\* ApiService.getProducts(params, token) (part_006:17)
getProducts_token ==
  /\ pc = "idle"
  /\ \E params \in ListParams, session \in Sessions :
       /\ ~session.tokenFails
       /\ clientCall' = [method |-> "getProducts_token", params |-> params,
                         session |-> session]
       /\ Send("getProducts_token", params,
               ClientRequest("GET", NumberParam(params.page),
                             NumberParam(params.limit),
                             CheckedSearchParam(params.search),
                             SameHeader(session.user), 0))

\* ApiService.getProducts of the Bearer client (page.tsx:465); a rejected
\* getIdToken rejects the request before it is sent
getProducts_bearer ==
  /\ pc = "idle"
  /\ \E params \in ListParams, session \in Sessions :
       /\ clientCall' = [method |-> "getProducts_bearer", params |-> params,
                         session |-> session]
       /\ IF IsSome(session.user) /\ session.tokenFails
          THEN /\ clientRequest' = NoCall
               /\ transport' = NoOutcome
               /\ clientResult' =
                    [thrown |-> TRUE, value |-> [message |-> "getIdToken"]]
               /\ pc' = "returned"
               /\ UNCHANGED <<proxyVars, ui>>
          ELSE Send("getProducts_bearer", params,
                    ClientRequest("GET", NumberParam(params.page),
                                  NumberParam(params.limit),
                                  SearchParam(params.search),
                                  InterceptBearer(session), 0))

\* ------------------------------- product payloads of the client wrapper
TitleMinLen == 2
TitleMaxLen == 200
PriceMax == 999999990
DescriptionMaxLen == 1000
CategoryMaxLen == 100
ImageMaxLen == 500

\* how far past a length limit, and how much surrounding whitespace, the
\* payloads drawn here go
MaxOver == 1
MaxPad == 1

\* the number NaN (typeof NaN === 'number'); every comparison with it is false
JNaN == [t |-> "number", s |-> <<"NaN">>, n |-> 0]
IsNaN(v) == v.t = "number" /\ v.s # <<>>

\* v < k and v > k on a number
NumLt(v, k) == ~IsNaN(v) /\ v.n < k
NumGe(v, k) == ~IsNaN(v) /\ v.n >= k
NumGt(v, k) == ~IsNaN(v) /\ v.n > k

Rep(c, n) == [i \in 1..n |-> c]

\* n characters c between k blanks on either side
Padded(c, n, k) == Rep(" ", k) \o Rep(c, n) \o Rep(" ", k)

\* new URL(s) succeeds: after stripping the surrounding blanks the string
\* starts with a scheme (letters, here "u") and a colon
IsUrl(s) ==
  LET t == trim(s)
  IN \E k \in 2..Len(t) : t[k] = ":" /\ \A i \in 1..(k - 1) : t[i] = "u"

\* a URL of n characters
UrlOfLen(n) == <<"u", ":">> \o Rep("u", n - 2)

\* ApiService.validateProductData: the message, or null (None)
validateProductData(data) ==
  LET title == data.product_title
      price == data.product_price
      description == data.product_description
      category == data.product_category
      image == data.product_image
  IN IF Falsy(title) \/ trim(title.s) = <<>>
     THEN Some("Product title is required")
     ELSE IF Len(trim(title.s)) < TitleMinLen
     THEN Some("Product title must be at least 2 characters long")
     ELSE IF Len(trim(title.s)) > TitleMaxLen
     THEN Some("Product title must be less than 200 characters")
     ELSE IF price.t # "number"
     THEN Some("Product price must be a number")
     ELSE IF NumLt(price, 0)
     THEN Some("Product price cannot be negative")
     ELSE IF NumGt(price, PriceMax)
     THEN Some("Product price cannot exceed $999,999.99")
     ELSE IF ~Falsy(description) /\ Len(description.s) > DescriptionMaxLen
     THEN Some("Product description must be less than 1000 characters")
     ELSE IF ~Falsy(category) /\ Len(category.s) > CategoryMaxLen
     THEN Some("Product category must be less than 100 characters")
     ELSE IF ~Falsy(image) /\ Len(image.s) > ImageMaxLen
     THEN Some("Product image URL must be less than 500 characters")
     ELSE IF ~Falsy(image) /\ trim(image.s) # <<>> /\ ~IsUrl(image.s)
     THEN Some("Product image must be a valid URL")
     ELSE None

\* the checks updateProduct makes on its data before it sends
validateUpdateData(data) ==
  LET title == data.product_title
      price == data.product_price
  IN IF price.t # "undefined" /\ (price.t # "number" \/ NumLt(price, 0))
     THEN Some("Price must be a positive number")
     ELSE IF title.t # "undefined" /\ (Falsy(title) \/ trim(title.s) = <<>>)
     THEN Some("Product title cannot be empty")
     ELSE None

\* cutting the price to whole cents instead of rounding it
TruncateCents(price) ==
  IF IsNaN(price) THEN price ELSE JNum((price.n \div 10) * 10)

\* Math.round(p * 100) / 100 on a price in thousandths: half rounds up
RoundCents(price) ==
  IF IsNaN(price) THEN price ELSE JNum(((price.n + 5) \div 10) * 10)

\* if (cleaned.f) { cleaned.f = cleaned.f.trim(); if (!cleaned.f) delete }
TrimOrDelete(v) ==
  IF Falsy(v) THEN v
  ELSE IF trim(v.s) = <<>> THEN JUndef ELSE JStr(trim(v.s))

\* ApiService.cleanProductData
cleanProductData(data) ==
  [product_title |-> IF Falsy(data.product_title) THEN data.product_title
                     ELSE JStr(trim(data.product_title.s)),
   product_price |-> IF data.product_price.t = "undefined"
                     THEN data.product_price
                     ELSE RoundCents(data.product_price),
   product_description |-> TrimOrDelete(data.product_description),
   product_category |-> TrimOrDelete(data.product_category),
   product_image |-> TrimOrDelete(data.product_image)]

\* ------------------------------------------------ inputs of the product calls
TitleLengths == (0..TitleMinLen) \cup (TitleMaxLen..(TitleMaxLen + MaxOver))

Titles ==
  {JUndef} \cup {JStr(Padded("t", n, k)) : n \in TitleLengths, k \in 0..MaxPad}

\* prices as numbers (in thousandths; none of them half a cent, where the
\* double p * 100 may fall to the other side), or absent
PriceNumbers ==
  {JUndef, JNaN}
  \cup {JNum(n) : n \in {-10, 0, 4, 19999, PriceMax, PriceMax + 4, PriceMax + 10}}

\* what a caller that casts its form values can pass as a price
Prices == PriceNumbers \cup {JStr(<<"5">>)}

\* optional text with limit max: absent, empty, blank, padded, at and over max
Texts(c, max) ==
  {JUndef, JStr(<<>>), JStr(Rep(" ", MaxPad)), JStr(Padded(c, 1, MaxPad))}
  \cup {JStr(Rep(c, n)) : n \in max..(max + MaxOver)}

Images ==
  {JUndef, JStr(<<>>), JStr(Rep(" ", MaxPad)), JStr(Padded("u", 2, 0)),
   JStr(Padded(":", 1, MaxPad) \o UrlOfLen(2))}
  \cup {JStr(Rep(" ", k) \o UrlOfLen(2) \o Rep(" ", k)) : k \in 0..MaxPad}
  \cup {JStr(UrlOfLen(n)) : n \in ImageMaxLen..(ImageMaxLen + MaxOver)}

\* every CreateProductData / UpdateProductData over these fields
ProductData ==
  [product_title : Titles, product_price : PriceNumbers,
   product_description : Texts("d", DescriptionMaxLen),
   product_category : Texts("c", CategoryMaxLen),
   product_image : Images]

ValidData ==
  [product_title |-> JStr(Rep("t", TitleMinLen)), product_price |-> JNum(5000),
   product_description |-> JUndef, product_category |-> JUndef,
   product_image |-> JUndef]

\* the form values a page submits: a valid payload with one field changed
SubmittedData ==
  {[ValidData EXCEPT !.product_title = v] : v \in Titles}
  \cup {[ValidData EXCEPT !.product_price = v] : v \in Prices}
  \cup {[ValidData EXCEPT !.product_description = v] :
          v \in Texts("d", DescriptionMaxLen)}
  \cup {[ValidData EXCEPT !.product_category = v] :
          v \in Texts("c", CategoryMaxLen)}
  \cup {[ValidData EXCEPT !.product_image = v] : v \in Images}

ProductIds == StrUpTo(IdChars, MaxIdLen)

\* ----------------------------------- single-product methods of the wrapper
\* !productId || !productId.trim()
BlankId(id) == id = <<>> \/ trim(id) = <<>>

\* encodeURIComponent over the id alphabet: a blank becomes %20
RECURSIVE encodeURIComponent(_)
encodeURIComponent(str) ==
  IF str = <<>> THEN <<>>
  ELSE (IF str[1] = " " THEN <<"%", "2", "0">> ELSE <<str[1]>>)
       \o encodeURIComponent(Tail(str))

\* { product_id: productId, ...data }
WithProductId(id, data) ==
  [product_id |-> JStr(id), product_title |-> data.product_title,
   product_price |-> data.product_price,
   product_description |-> data.product_description,
   product_category |-> data.product_category,
   product_image |-> data.product_image]

\* a method ends in its own code, before any request is made
EndLocally(method, params, error) ==
  /\ clientRequest' = NoCall
  /\ transport' = NoOutcome
  /\ clientResult' = Rejected(method, params, error)
  /\ pc' = "returned"
  /\ UNCHANGED <<proxyVars, ui>>

\* the call is recorded with the error its own code raised, if any (local);
\* the method ends with that error, or sends req
Call(method, params, session, error, req) ==
  /\ clientCall' = [method |-> method, params |-> params, session |-> session,
                    local |-> error]
  /\ IF IsSome(error) THEN EndLocally(method, params, Val(error))
     ELSE Send(method, params, req)

\* ApiService.getProduct of the error-handling client (part_007:125)
getProduct_handled ==
  /\ pc = "idle"
  /\ \E id \in ProductIds, session \in Sessions :
       Call("getProduct_handled", [productId |-> id], session,
            IF BlankId(id) THEN Some(LocalError("Product ID is required"))
            ELSE None,
            ProductCall("GET", Some(encodeURIComponent(id)), NoBody,
                        InterceptToken(session), ClientTimeoutMs))

\* ApiService.createProduct of the error-handling client (part_007:146)
createProduct_handled ==
  /\ pc = "idle"
  /\ \E data \in SubmittedData, session \in Sessions :
       Call("createProduct_handled", [data |-> data], session,
            IF IsSome(validateProductData(data))
            THEN Some(LocalError(Val(validateProductData(data)))) ELSE None,
            ProductCall("POST", None, cleanProductData(data),
                        InterceptToken(session), ClientTimeoutMs))

\* ApiService.updateProduct of the error-handling client (part_007:177)
updateProduct_handled ==
  /\ pc = "idle"
  /\ \E id \in ProductIds, data \in SubmittedData, session \in Sessions :
       Call("updateProduct_handled", [productId |-> id, data |-> data], session,
            IF BlankId(id) THEN Some(LocalError("Product ID is required"))
            ELSE IF IsSome(validateUpdateData(data))
            THEN Some(LocalError(Val(validateUpdateData(data)))) ELSE None,
            ProductCall("PUT", None, WithProductId(id, cleanProductData(data)),
                        InterceptToken(session), ClientTimeoutMs))

\* the client with setAuthToken: session.user is the header in the defaults
\* ApiService.getProduct (part_007:401)
getProduct_defaults ==
  /\ pc = "idle"
  /\ \E id \in ProductIds, session \in Sessions :
       /\ ~session.tokenFails
       /\ Call("getProduct_defaults", [productId |-> id], session, None,
               ProductCall("GET", Some(id), NoBody, session.user, 0))

\* ApiService.createProduct (part_007:407)
createProduct_defaults ==
  /\ pc = "idle"
  /\ \E data \in SubmittedData, session \in Sessions :
       /\ ~session.tokenFails
       /\ Call("createProduct_defaults", [data |-> data], session, None,
               ProductCall("POST", None, data, session.user, 0))

\* ApiService.updateProduct (part_007:413)
updateProduct_defaults ==
  /\ pc = "idle"
  /\ \E id \in ProductIds, data \in SubmittedData, session \in Sessions :
       /\ ~session.tokenFails
       /\ Call("updateProduct_defaults", [productId |-> id, data |-> data], session,
               None,
               ProductCall("PUT", None, WithProductId(id, data), session.user, 0))

\* the client whose methods take the token as an argument
\* ApiService.getProduct (part_006:34)
getProduct_token ==
  /\ pc = "idle"
  /\ \E id \in ProductIds, session \in Sessions :
       /\ ~session.tokenFails
       /\ Call("getProduct_token", [productId |-> id], session, None,
               ProductCall("GET", Some(id), NoBody, SameHeader(session.user), 0))

\* ApiService.createProduct (part_006:45)
createProduct_token ==
  /\ pc = "idle"
  /\ \E data \in SubmittedData, session \in Sessions :
       /\ ~session.tokenFails
       /\ Call("createProduct_token", [data |-> data], session, None,
               ProductCall("POST", None, data, SameHeader(session.user), 0))

\* ApiService.updateProduct (part_006:56)
updateProduct_token ==
  /\ pc = "idle"
  /\ \E id \in ProductIds, data \in SubmittedData, session \in Sessions :
       /\ ~session.tokenFails
       /\ Call("updateProduct_token", [productId |-> id, data |-> data], session,
               None,
               ProductCall("PUT", None, WithProductId(id, data), SameHeader(session.user), 0))

\* a rejected getIdToken rejects the request in the Bearer client's interceptor
TokenError(session) ==
  IF IsSome(session.user) /\ session.tokenFails
  THEN Some(LocalError("getIdToken")) ELSE None

\* ApiService.getProduct (page.tsx:477)
getProduct_bearer ==
  /\ pc = "idle"
  /\ \E id \in ProductIds, session \in Sessions :
       Call("getProduct_bearer", [productId |-> id], session, TokenError(session),
            ProductCall("GET", Some(id), NoBody, InterceptBearer(session), 0))

\* ApiService.createProduct (page.tsx:483)
createProduct_bearer ==
  /\ pc = "idle"
  /\ \E data \in SubmittedData, session \in Sessions :
       Call("createProduct_bearer", [data |-> data], session, TokenError(session),
            ProductCall("POST", None, data, InterceptBearer(session), 0))

\* ApiService.updateProduct (page.tsx:489)
updateProduct_bearer ==
  /\ pc = "idle"
  /\ \E id \in ProductIds, data \in SubmittedData, session \in Sessions :
       Call("updateProduct_bearer", [productId |-> id, data |-> data], session,
            TokenError(session),
            ProductCall("PUT", None, WithProductId(id, data), InterceptBearer(session), 0))

\* the method has returned or thrown; the wrapper keeps no state between calls
Return ==
  /\ pc = "returned"
  /\ pc' = "idle"
  /\ clientCall' = NoClientCall
  /\ clientRequest' = NoCall
  /\ transport' = NoOutcome
  /\ clientResult' = NoResult
  /\ UNCHANGED <<proxyVars, ui>>

Next ==
  \/ Receive
  \/ GET_products_A
  \/ GET_products_B
  \/ GET_products_C
  \/ GET_product_A
  \/ GET_product_B
  \/ GET_product_C
  \/ POST_product_A
  \/ POST_product_B
  \/ POST_product_C
  \/ PUT_product_A
  \/ PUT_product_B
  \/ PUT_product_C
  \/ Finish
  \/ getProducts_handled
  \/ getProducts_defaults
  \/ getProducts_token
  \/ getProducts_bearer
  \/ getProduct_handled
  \/ createProduct_handled
  \/ updateProduct_handled
  \/ getProduct_defaults
  \/ createProduct_defaults
  \/ updateProduct_defaults
  \/ getProduct_token
  \/ createProduct_token
  \/ updateProduct_token
  \/ getProduct_bearer
  \/ createProduct_bearer
  \/ updateProduct_bearer
  \/ Return

Spec == Init /\ [][Next]_vars

\* ------------------------------- validation and cleaning on their own
\* a payload is at hand, nothing has been called
PayloadInit ==
  /\ pc = "payload"
  /\ clientCall \in [method : {"none"}, params : [data : ProductData]]
  /\ clientResult = NoResult
  /\ clientRequest = NoCall
  /\ transport = NoOutcome
  /\ request = NoRequest
  /\ outbound = NoCall
  /\ backend = NoOutcome
  /\ response = NoResponse
  /\ ui = NoPage

\* this.validateProductData(productData)
Validate ==
  /\ pc = "payload"
  /\ clientCall' = [clientCall EXCEPT !.method = "validateProductData"]
  /\ clientResult' = [thrown |-> FALSE,
                      value |-> validateProductData(clientCall.params.data)]
  /\ pc' = "validated"
  /\ UNCHANGED <<clientRequest, transport, proxyVars, ui>>

\* this.cleanProductData(productData)
Clean ==
  /\ pc = "payload"
  /\ clientCall' = [clientCall EXCEPT !.method = "cleanProductData"]
  /\ clientResult' = [thrown |-> FALSE,
                      value |-> cleanProductData(clientCall.params.data)]
  /\ pc' = "cleaned"
  /\ UNCHANGED <<clientRequest, transport, proxyVars, ui>>

\* cleanProductData applied to the payload it has returned
CleanAgain ==
  /\ pc = "cleaned"
  /\ clientCall' = [clientCall EXCEPT !.params = [data |-> clientResult.value]]
  /\ clientResult' = [thrown |-> FALSE,
                      value |-> cleanProductData(clientResult.value)]
  /\ pc' = "recleaned"
  /\ UNCHANGED <<clientRequest, transport, proxyVars, ui>>

PayloadNext == Validate \/ Clean \/ CleanAgain

PayloadSpec == PayloadInit /\ [][PayloadNext]_vars

\* --------------------------------------- the pages and their search box
\* useDebounce(searchTerm, 300) and setTimeout(..., 300)
DebounceMs == 300

\* limit of the Dashboard
DashboardPageSize == 8

\* the number of steps in which the clock passes the debounce delay
DebounceTicks == 3

TickMs == DebounceMs \div DebounceTicks

\* no timer is set
Off == -1

\* the longest burst of changes of the search term that is counted
MaxBurst == 3

NoFetch == [cause |-> "none"]

\* the most fetches a page has in flight at once
MaxInFlight == 2

\* products and total before any response has been applied
NoList == [page |-> 0, search |-> <<>>]

\* what is typed into the search box: nothing, or a word of the one letter
SearchTerms == StrUpTo({"a"}, MaxSearchLen)

\* AuthContext.getToken: the user's token, null without a user or on an error
getToken(user, fails) == IF IsSome(user) /\ ~fails THEN user ELSE None

\* ApiService.setAuthToken: the Authorization header left in the defaults
setAuthToken(token) == IF Truthy(token) THEN token ELSE None

\* params that ask for the first page whatever page was asked for
FirstPageParams(pageNo, limit, term) ==
  [page |-> Some(1), limit |-> Some(limit),
   search |-> IF term # <<>> THEN Some(term) ELSE None]

\* { page, limit, ...(search && { search }) }
FetchParams(pageNo, limit, term) ==
  [page |-> Some(pageNo), limit |-> Some(limit),
   search |-> IF term # <<>> THEN Some(term) ELSE None]

\* fetchProducts(pageNo, term) of ProductsPage: getProducts of the client with
\* setAuthToken, which sends the header the defaults hold at the call
FetchOfProductsPage(cause, pageNo, term, authorization) ==
  LET params == FetchParams(pageNo, PageSize, term)
  IN [cause |-> cause, search |-> term,
      quiet |-> IF cause = "search" THEN ui.quiet ELSE 0,
      request |-> ClientRequest("GET", NumberParam(params.page),
                                NumberParam(params.limit),
                                SearchParam(params.search), authorization, 0)]

\* fetchProducts(pageNo, term) of the Dashboard: getProducts of the
\* error-handling client, whose interceptor asks for the token at the call
FetchOfDashboard(cause, pageNo, term, session) ==
  LET params == FetchParams(pageNo, DashboardPageSize, term)
  IN [cause |-> cause, search |-> term,
      quiet |-> IF cause = "search" THEN ui.quiet ELSE 0,
      request |-> ClientRequest("GET", NumberParam(params.page),
                                NumberParam(params.limit),
                                TrimmedSearchParam(params.search),
                                InterceptToken(session), ClientTimeoutMs)]

\* the pages about to be mounted, for a signed-in user or none, with an
\* identity provider that issues the token or fails. overlap tells whether a
\* fetch is started while another one is in flight
Unmounted(overlap) ==
  {u \in [draft : {"ProductsPage", "Dashboard"}, mounted : {FALSE},
          user : {None, Some(<<"tok">>)}, tokenFails : BOOLEAN,
          searchTerm : {<<>>}, debouncedSearchTerm : {<<>>},
          timer : {Off}, initAuth : {"idle"}, authorization : {None},
          fetched : {NoFetch}, searchFetches : {0}, burst : {0},
          quiet : {0}, currentPage : {1}, shown : {NoList},
          loading : BOOLEAN, inflight : {<<>>}, resumed : {NoFetch},
          modal : {"closed"}, overlap : {overlap}] :
     u.loading = (u.draft = "Dashboard")}

\* a page on which every fetch is answered before the next one is started
PageInit ==
  /\ pc = "page"
  /\ ui \in Unmounted(FALSE)
  /\ request = NoRequest
  /\ outbound = NoCall
  /\ backend = NoOutcome
  /\ response = NoResponse
  /\ clientCall = NoClientCall
  /\ clientRequest = NoCall
  /\ transport = NoOutcome
  /\ clientResult = NoResult

\* fetchProducts(pageNo, term) up to its await, called in a handler that has
\* brought the page to u: setLoading(true) and the request leaves. A fetch in
\* flight is the latest until another one is started; before is the
\* currentPage its handler found
fetchProducts(u, cause, pageNo, term) ==
  [u EXCEPT
     !.loading = TRUE,
     !.resumed = NoFetch,
     !.inflight =
        Append([i \in 1..Len(u.inflight) |->
                  [u.inflight[i] EXCEPT !.latest = FALSE]],
               [page |-> pageNo, search |-> term, latest |-> TRUE,
                before |-> ui.currentPage]),
     !.fetched = IF u.draft = "Dashboard"
                 THEN FetchOfDashboard(cause, pageNo, term, u)
                 ELSE FetchOfProductsPage(cause, pageNo, term, u.authorization)]

\* the user and the timers act: at any time on a page with overlapping
\* fetches, otherwise when the fetch in flight has been answered
MayAct == ui.overlap \/ ui.inflight = <<>>

\* another fetch can be started
MayFetch == MayAct /\ Len(ui.inflight) < MaxInFlight

\* ProductsPage is mounted: its effects run in order. useDebounce sets its
\* timer, initAuth is started and waits for getToken, and the fetch effect
\* calls fetchProducts(1, '') at once
ProductsPage_mount ==
  /\ ui.draft = "ProductsPage" /\ ~ui.mounted
  /\ ui' = fetchProducts([ui EXCEPT !.mounted = TRUE, !.timer = DebounceMs,
                                    !.initAuth = "pending"],
                         "mount", 1, <<>>)
  /\ UNCHANGED <<pc, proxyVars, clientVars>>

\* getToken has settled: ApiService.setAuthToken(token)
initAuth ==
  /\ ui.initAuth = "pending"
  /\ ui' = [ui EXCEPT !.initAuth = "done", !.resumed = NoFetch,
                      !.authorization =
                         setAuthToken(getToken(ui.user, ui.tokenFails))]
  /\ UNCHANGED <<pc, proxyVars, clientVars>>

\* the Dashboard is mounted: fetchProducts(1, searchTerm), and the debounce
\* effect sets its timer
Dashboard_mount ==
  /\ ui.draft = "Dashboard" /\ ~ui.mounted
  /\ ui' = fetchProducts([ui EXCEPT !.mounted = TRUE, !.timer = DebounceMs],
                         "mount", 1, ui.searchTerm)
  /\ UNCHANGED <<pc, proxyVars, clientVars>>

\* a timer that is left running when searchTerm changes
KeepTimer(timer) == IF timer = Off THEN DebounceMs ELSE timer

\* the effect that depends on searchTerm is cleaned up (clearTimeout) and run
\* again (setTimeout): whatever the old timer had left, the new one is full
RestartTimer(timer) == DebounceMs

\* onChange of the search box: searchTerm changes, and burst counts the
\* changes made while a timer was running, quiet the time since the last
setSearchTerm ==
  /\ ui.mounted /\ MayAct
  /\ \E value \in SearchTerms \ {ui.searchTerm} :
       ui' = [ui EXCEPT !.searchTerm = value,
                        !.timer = RestartTimer(ui.timer),
                        !.searchFetches = 0, !.quiet = 0,
                        !.resumed = NoFetch,
                        !.burst = IF ui.timer = Off THEN 1
                                  ELSE IF ui.burst < MaxBurst
                                  THEN ui.burst + 1 ELSE MaxBurst]
  /\ UNCHANGED <<pc, proxyVars, clientVars>>

\* time passes, by no more than what the timer has left
Tick ==
  /\ ui.timer > 0 /\ MayAct
  /\ ui' = [ui EXCEPT !.resumed = NoFetch,
                      !.timer = IF ui.timer > TickMs THEN ui.timer - TickMs
                                 ELSE 0,
                      !.quiet = IF ui.quiet + TickMs < DebounceMs
                                THEN ui.quiet + TickMs ELSE DebounceMs]
  /\ UNCHANGED <<pc, proxyVars, clientVars>>

\* the timer of useDebounce fires: setDebouncedValue(value); a changed
\* debouncedSearchTerm runs the fetch effect: fetchProducts(1, it), and
\* setCurrentPage(1) if it is not the empty string
useDebounce_timeout ==
  /\ ui.draft = "ProductsPage" /\ ui.timer = 0
  /\ MayFetch
  /\ ui' = IF ui.searchTerm = ui.debouncedSearchTerm
           THEN [ui EXCEPT !.timer = Off, !.resumed = NoFetch]
           ELSE fetchProducts(
                  [ui EXCEPT !.timer = Off,
                             !.debouncedSearchTerm = ui.searchTerm,
                             !.searchFetches = ui.searchFetches + 1,
                             !.currentPage = IF ui.searchTerm # <<>> THEN 1
                                             ELSE ui.currentPage],
                  "search", 1, ui.searchTerm)
  /\ UNCHANGED <<pc, proxyVars, clientVars>>

\* the debounce timer of the Dashboard fires: setCurrentPage(1) and
\* fetchProducts(1, searchTerm)
Dashboard_timeout ==
  /\ ui.draft = "Dashboard" /\ ui.timer = 0
  /\ MayFetch
  /\ ui' = fetchProducts([ui EXCEPT !.timer = Off,
                                    !.searchFetches = ui.searchFetches + 1,
                                    !.currentPage = 1],
                         "search", 1, ui.searchTerm)
  /\ UNCHANGED <<pc, proxyVars, clientVars>>

\* onChange of the pagination of ProductsPage, for another page than the
\* current one: setCurrentPage(page); fetchProducts(page, debouncedSearchTerm)
pagination_onChange ==
  /\ ui.draft = "ProductsPage" /\ ui.mounted
  /\ MayFetch
  /\ \E pageNo \in (1..MaxPage) \ {ui.currentPage} :
       ui' = fetchProducts([ui EXCEPT !.currentPage = pageNo],
                           "page", pageNo, ui.debouncedSearchTerm)
  /\ UNCHANGED <<pc, proxyVars, clientVars>>

\* handlePageChange of the Dashboard: fetchProducts(page, searchTerm)
handlePageChange ==
  /\ ui.draft = "Dashboard" /\ ui.mounted
  /\ MayFetch
  /\ \E pageNo \in 1..MaxPage :
       ui' = fetchProducts(ui, "page", pageNo, ui.searchTerm)
  /\ UNCHANGED <<pc, proxyVars, clientVars>>

\* how getProducts can end for a page: with the list, with a failure envelope,
\* or with an exception (never from the client that catches its errors)
GetProductsOutcomes(draft) ==
  IF draft = "Dashboard" THEN {"ok", "envelope"}
  ELSE {"ok", "envelope", "thrown"}

\* a fetch in flight gets its answer and fetchProducts resumes after its
\* await: a successful response is applied (setProducts, setTotal,
\* setCurrentPage(page)), anything else is notified as an error, and finally
\* setLoading(false). Fetches are answered in any order
fetchProducts_resume ==
  /\ \E i \in 1..Len(ui.inflight), o \in GetProductsOutcomes(ui.draft) :
       LET f == ui.inflight[i]
       IN ui' = [ui EXCEPT
                   !.inflight = SubSeq(ui.inflight, 1, i - 1)
                                \o SubSeq(ui.inflight, i + 1, Len(ui.inflight)),
                   !.shown = IF o = "ok"
                             THEN [page |-> f.page, search |-> f.search]
                             ELSE ui.shown,
                   !.currentPage = IF o = "ok" THEN f.page ELSE ui.currentPage,
                   !.loading = FALSE,
                   !.resumed = [cause |-> "fetch", fetch |-> f, outcome |-> o,
                                notice |-> IF o = "ok" THEN "none" ELSE "error"]]
  /\ UNCHANGED <<pc, proxyVars, clientVars>>

\* openCreateModal / openEditModal
openModal ==
  /\ ui.mounted /\ ui.modal = "closed" /\ MayAct
  /\ \E mode \in {"create", "edit"} :
       ui' = [ui EXCEPT !.modal = mode, !.resumed = NoFetch]
  /\ UNCHANGED <<pc, proxyVars, clientVars>>

\* how createProduct / updateProduct can end for a page: with an envelope that
\* has is_success true ("ok") or false ("envelope"), or with an exception
SaveOutcomes == {"ok", "envelope", "thrown"}

\* handleModalSubmit of ProductsPage, from the click to the end: the call is
\* made and answered. Success is notified and the list fetched again only for
\* is_success; the modal is closed unless something was thrown
handleModalSubmit ==
  /\ ui.draft = "ProductsPage" /\ ui.modal # "closed"
  /\ MayFetch
  /\ \E o \in SaveOutcomes :
       LET u == [ui EXCEPT
                   !.modal = IF o = "thrown" THEN ui.modal ELSE "closed",
                   !.resumed = [cause |-> "save", mode |-> ui.modal,
                                outcome |-> o,
                                notice |-> IF o = "ok" THEN "success"
                                           ELSE IF o = "thrown" THEN "error"
                                           ELSE "none"]]
       IN ui' = IF o = "ok"
                THEN [fetchProducts(u, "save", ui.currentPage,
                                    ui.debouncedSearchTerm)
                        EXCEPT !.resumed = u.resumed]
                ELSE u
  /\ UNCHANGED <<pc, proxyVars, clientVars>>

\* handleFormSubmit of the Dashboard, from the click to the end: success is
\* notified as soon as the call has returned; the modal is closed and the list
\* fetched again only for is_success
handleFormSubmit ==
  /\ ui.draft = "Dashboard" /\ ui.modal # "closed"
  /\ MayFetch
  /\ \E o \in SaveOutcomes :
       LET u == [ui EXCEPT
                   !.modal = IF o = "ok" THEN "closed" ELSE ui.modal,
                   !.resumed = [cause |-> "save", mode |-> ui.modal,
                                outcome |-> o,
                                notice |-> IF o = "thrown" THEN "error"
                                           ELSE "success"]]
       IN ui' = IF o = "ok"
                THEN [fetchProducts(u, "save", ui.currentPage, ui.searchTerm)
                        EXCEPT !.resumed = u.resumed]
                ELSE u
  /\ UNCHANGED <<pc, proxyVars, clientVars>>

PageNext ==
  \/ ProductsPage_mount
  \/ initAuth
  \/ Dashboard_mount
  \/ setSearchTerm
  \/ Tick
  \/ useDebounce_timeout
  \/ Dashboard_timeout
  \/ pagination_onChange
  \/ handlePageChange
  \/ fetchProducts_resume

PageSpec == PageInit /\ [][PageNext]_vars

\* a page of a signed-in user on which fetches overlap
FetchInit ==
  /\ pc = "page"
  /\ ui \in {u \in Unmounted(TRUE) : IsSome(u.user) /\ ~u.tokenFails}
  /\ request = NoRequest
  /\ outbound = NoCall
  /\ backend = NoOutcome
  /\ response = NoResponse
  /\ clientCall = NoClientCall
  /\ clientRequest = NoCall
  /\ transport = NoOutcome
  /\ clientResult = NoResult

FetchSpec == FetchInit /\ [][PageNext]_vars

\* the pages with their modal: products are saved, the list is fetched again
\* and pages are changed
SaveNext ==
  \/ ProductsPage_mount
  \/ initAuth
  \/ Dashboard_mount
  \/ pagination_onChange
  \/ handlePageChange
  \/ fetchProducts_resume
  \/ openModal
  \/ handleModalSubmit
  \/ handleFormSubmit

SaveSpec == PageInit /\ [][SaveNext]_vars

\* ------------------------------------------------------------ statistics
\* the longest list of products the statistics are computed for
MaxProducts == 2

\* product_category of a loaded product: missing, empty, or a name
Categories == {JUndef, JStr(<<>>), JStr(<<"a">>), JStr(<<"A">>)}

\* the loaded products: price (in thousandths) and category
LoadedProducts ==
  UNION {[1..n -> [product_price : {0, 1000, 2500},
                   product_category : Categories]] : n \in 0..MaxProducts}

\* products.reduce((sum, p) => sum + p.product_price, 0)
RECURSIVE TotalPrice(_)
TotalPrice(products) ==
  IF products = <<>> THEN 0
  ELSE TotalPrice(SubSeq(products, 1, Len(products) - 1))
       + products[Len(products)].product_price

\* a / b kept as the exact quotient
Div(a, b) == [num |-> a, den |-> b]

\* new Set(products.map(p => p.product_category).filter(Boolean)).size
TruthyCategories(products) ==
  Cardinality({products[i].product_category.s :
                 i \in {j \in 1..Len(products) :
                          ~Falsy(products[j].product_category)}})

StatsInit ==
  /\ pc = "stats"
  /\ ui \in [draft : {"stats"}, products : LoadedProducts,
             by : {"none"}, result : {NoResult}]
  /\ request = NoRequest
  /\ outbound = NoCall
  /\ backend = NoOutcome
  /\ response = NoResponse
  /\ clientCall = NoClientCall
  /\ clientRequest = NoCall
  /\ transport = NoOutcome
  /\ clientResult = NoResult

\* stats of ProductsPage (useMemo over products and total)
stats ==
  /\ pc = "stats"
  /\ LET products == ui.products
         totalPrice == TotalPrice(products)
     IN ui' = [ui EXCEPT
                 !.by = "stats",
                 !.result =
                    [averagePrice |-> IF Len(products) # 0
                                      THEN Div(totalPrice, Len(products))
                                      ELSE Div(0, 1),
                     totalCategories |-> TruthyCategories(products),
                     totalValue |-> totalPrice]]
  /\ pc' = "computed"
  /\ UNCHANGED <<proxyVars, clientVars>>

\* calculateStats of the Dashboard
calculateStats ==
  /\ pc = "stats"
  /\ LET productsData == ui.products
         totalProducts == Len(productsData)
         totalValue == TotalPrice(productsData)
     IN ui' = [ui EXCEPT
                 !.by = "calculateStats",
                 !.result =
                    [averagePrice |-> IF totalProducts > 0
                                      THEN Div(totalValue, totalProducts)
                                      ELSE Div(0, 1),
                     totalCategories |-> TruthyCategories(productsData),
                     totalValue |-> totalValue]]
  /\ pc' = "computed"
  /\ UNCHANGED <<proxyVars, clientVars>>

\* calculateDashboardStats: a product without a category is counted under
\* 'Uncategorized' in categoryMap
calculateDashboardStats ==
  /\ pc = "stats"
  /\ LET products == ui.products
         totalValue == TotalPrice(products)
         category(i) == IF Falsy(products[i].product_category)
                        THEN <<"Uncategorized">>
                        ELSE products[i].product_category.s
         categoryMap == {category(i) : i \in 1..Len(products)}
     IN ui' = [ui EXCEPT
                 !.by = "calculateDashboardStats",
                 !.result =
                    IF Len(products) = 0
                    THEN [averagePrice |-> Div(0, 1), totalCategories |-> 0,
                          totalValue |-> 0]
                    ELSE [averagePrice |-> Div(totalValue, Len(products)),
                          totalCategories |-> Cardinality(categoryMap),
                          totalValue |-> totalValue]]
  /\ pc' = "computed"
  /\ UNCHANGED <<proxyVars, clientVars>>

StatsNext ==
  \/ stats
  \/ calculateStats
  \/ calculateDashboardStats

StatsSpec == StatsInit /\ [][StatsNext]_vars

\* ------------------------------------------------------------ AuthProvider
\* the most auth state changes the listener has not been told of yet
MaxEvents == 2

\* the user the identity provider signs in
AuthUser == Some(<<"uid">>)

\* the provider after it was mounted: loading is true, the listener is
\* subscribed and will be called with the user the identity provider holds
\* (current). last is the attempt that has completed, and how
AuthInit ==
  /\ pc = "auth"
  /\ ui \in {u \in [draft : {"AuthContext", "utils"}, current : {None, AuthUser},
                     user : {None}, loading : {TRUE}, initializing : {TRUE},
                     events : {<<None>>, <<AuthUser>>},
                     last : {[op |-> "none"]}] :
               u.events = <<u.current>>}
  /\ request = NoRequest
  /\ outbound = NoCall
  /\ backend = NoOutcome
  /\ response = NoResponse
  /\ clientCall = NoClientCall
  /\ clientRequest = NoCall
  /\ transport = NoOutcome
  /\ clientResult = NoResult

\* the callback of onAuthStateChanged: setUser(user), setLoading(false). In
\* AuthContext.tsx the effect depends on initializing, so the first callback
\* subscribes again, and the new subscription calls back with the current user
onAuthStateChanged ==
  /\ pc = "auth" /\ ui.events # <<>>
  /\ ui' = [ui EXCEPT
              !.user = Head(ui.events),
              !.loading = FALSE,
              !.initializing = FALSE,
              !.events = IF ui.draft = "AuthContext" /\ ui.initializing
                         THEN Append(Tail(ui.events), ui.current)
                         ELSE Tail(ui.events)]
  /\ UNCHANGED <<pc, proxyVars, clientVars>>

\* an attempt of the provider at op, from the call to its end: the identity
\* provider accepts it ("ok": the user it holds becomes current and the
\* listener will be told) or rejects it, and loading is what the attempt
\* leaves it at
Attempt(op, outcome, current, loading) ==
  /\ pc = "auth" /\ Len(ui.events) < MaxEvents
  /\ ui' = [ui EXCEPT
              !.current = IF outcome = "rejected" THEN ui.current ELSE current,
              !.events = IF outcome = "rejected" THEN ui.events
                         ELSE Append(ui.events, current),
              !.loading = loading,
              !.last = [op |-> op, outcome |-> outcome]]
  /\ UNCHANGED <<pc, proxyVars, clientVars>>

\* signIn of AuthContext.tsx: setLoading(true) ... finally setLoading(false)
signIn ==
  /\ ui.draft = "AuthContext"
  /\ \E outcome \in {"ok", "rejected"} :
       Attempt("signIn", outcome, AuthUser, FALSE)

\* signUp of AuthContext.tsx; updateProfile can reject after the user was
\* created ("profile rejected")
signUp ==
  /\ ui.draft = "AuthContext"
  /\ \E outcome \in {"ok", "rejected", "profile rejected"} :
       Attempt("signUp", outcome, AuthUser, FALSE)

\* logout of AuthContext.tsx
logout ==
  /\ ui.draft = "AuthContext"
  /\ \E outcome \in {"ok", "rejected"} :
       Attempt("logout", outcome, None, FALSE)

\* signIn of utils.ts: setLoading(true), and nothing in its finally block
signIn_utils ==
  /\ ui.draft = "utils"
  /\ \E outcome \in {"ok", "rejected"} :
       Attempt("signIn", outcome, AuthUser, TRUE)

\* signUp of utils.ts
signUp_utils ==
  /\ ui.draft = "utils"
  /\ \E outcome \in {"ok", "rejected"} :
       Attempt("signUp", outcome, AuthUser, TRUE)

\* logout of utils.ts: await signOut(auth), loading is not touched
logout_utils ==
  /\ ui.draft = "utils"
  /\ \E outcome \in {"ok", "rejected"} :
       Attempt("logout", outcome, None, ui.loading)

AuthNext ==
  \/ onAuthStateChanged
  \/ signIn
  \/ signUp
  \/ logout
  \/ signIn_utils
  \/ signUp_utils
  \/ logout_utils

AuthSpec == AuthInit /\ [][AuthNext]_vars

\* ------------------------------------------------------- ImageWithFallback
\* the longest path of an image URL
MaxPathLen == 3

LoremFlickr ==
  <<"l", "o", "r", "e", "m", "f", "l", "i", "c", "k", "r", ".", "c", "o", "m">>

\* the src prop: empty, or a host followed by a path
ImageSrcs ==
  {<<>>} \cup {host \o path : host \in {LoremFlickr, <<"x", ".", "i", "o">>},
                             path \in StrUpTo({"/", "1", "c"}, MaxPathLen)}

\* a test that finds sub in every string
IncludesAny(str, sub) == TRUE

\* String.prototype.includes
includes(str, sub) ==
  \E i \in 0..(Len(str) - Len(sub)) : SubSeq(str, i + 1, i + Len(sub)) = sub

\* getImageSrc: which URL the img element is given (the picsum URL of the
\* alternative service, the proxy URL for src, or src itself)
getImageSrc(u) ==
  IF u.src = <<>> THEN "none"
  ELSE IF u.useAlternative /\ includes(u.src, LoremFlickr) THEN "alternative"
  ELSE IF u.useProxy THEN "proxy"
  ELSE "src"

\* the component after its first render: the img element, if src is not
\* empty, is loading src. errors counts the load errors, tried the URLs the
\* img element has been given
ImageInit ==
  /\ pc = "image"
  /\ ui \in {u \in [draft : {"ImageWithFallback"}, src : ImageSrcs,
                     imageError : {FALSE}, useProxy : {FALSE},
                     useAlternative : {FALSE}, errors : {0},
                     tried : {{}, {"src"}}] :
               u.tried = IF u.src = <<>> THEN {} ELSE {"src"}}
  /\ request = NoRequest
  /\ outbound = NoCall
  /\ backend = NoOutcome
  /\ response = NoResponse
  /\ clientCall = NoClientCall
  /\ clientRequest = NoCall
  /\ transport = NoOutcome
  /\ clientResult = NoResult

\* onError of the img element, which is rendered unless imageError || !src:
\* handleImageError, and the render that follows it
handleImageError ==
  /\ pc = "image"
  /\ ~ui.imageError /\ ui.src # <<>>
  /\ LET u == IF ~ui.useProxy /\ ui.src # <<>>
                 /\ includes(ui.src, LoremFlickr)
              THEN [ui EXCEPT !.useProxy = TRUE]
              ELSE IF ~ui.useAlternative /\ ui.src # <<>>
              THEN [ui EXCEPT !.useAlternative = TRUE]
              ELSE [ui EXCEPT !.imageError = TRUE]
     IN ui' = [u EXCEPT !.errors = ui.errors + 1,
                        !.tried = IF u.imageError THEN ui.tried
                                  ELSE ui.tried \cup {getImageSrc(u)}]
  /\ UNCHANGED <<pc, proxyVars, clientVars>>

ImageNext == handleImageError

ImageSpec == ImageInit /\ [][ImageNext]_vars

\* ------------------------------------------------------------ properties
Handled(handlers) == pc = "done" /\ request.handler \in handlers

ProxyHandlers == ListHandlers \cup GetHandlers \cup PostHandlers \cup PutHandlers

EnvelopeFields == {"status_code", "is_success", "error_code", "data"}

WellFormed(b) == EnvelopeFields \subseteq DOMAIN b

\* is_success == (error_code == null), both fields being there
SuccessIffNoError(b) ==
  /\ {"is_success", "error_code"} \subseteq DOMAIN b
  /\ b.is_success <=> b.error_code = None

\* the body is the failure envelope with these values
IsFailure(b, sc, ec, d) ==
  /\ WellFormed(b)
  /\ b.status_code = sc
  /\ b.is_success = FALSE
  /\ b.error_code = Some(ec)
  /\ b.data = d

\* C1: every envelope a proxy handler answers with, and every envelope the
\* client wrapper returns from a catch block, has is_success true exactly when
\* error_code is null.
C1_SuccessIffNoError ==
  /\ Handled(ProxyHandlers) => SuccessIffNoError(response.body)
  /\ (pc = "returned" /\ ~clientResult.thrown)
       => SuccessIffNoError(clientResult.value)

\* C2: every run of a proxy handler, whatever the backend's outcome and also
\* on an unparsable body, ends with a response that has an HTTP status and a
\* body with status_code, is_success, error_code and data.
C2_AlwaysEnvelope ==
  Handled(ProxyHandlers) => response.http > 0 /\ WellFormed(response.body)

\* C3: a failed outbound call of the list proxy is answered 408 /
\* REQUEST_TIMEOUT when it timed out, <backend status> / EXTERNAL_API_ERROR
\* when the backend answered with an HTTP error, and 500 /
\* INTERNAL_SERVER_ERROR otherwise.
C3_ListFailureClasses ==
  (Handled(ListHandlers) /\ backend.kind # "ok") =>
    LET b == response.body
    IN /\ WellFormed(b)
       /\ backend.kind = "timeout" =>
            b.status_code = <<"4", "0", "8">>
            /\ b.error_code = Some("REQUEST_TIMEOUT")
       /\ backend.kind = "http" =>
            b.status_code = NatToString(backend.status)
            /\ b.error_code = Some("EXTERNAL_API_ERROR")
       /\ backend.kind = "network" =>
            b.status_code = <<"5", "0", "0">>
            /\ b.error_code = Some("INTERNAL_SERVER_ERROR")

\* C4: every failure response of the list proxy carries data, and it is the
\* empty array.
C4_ListFailureData ==
  (Handled(ListHandlers) /\ backend.kind # "ok") =>
    "data" \in DOMAIN response.body /\ response.body.data = DataEmptyArray

IsNumeral(s) == s # <<>> /\ \A i \in 1..Len(s) : s[i] \in Digits

RECURSIVE Pow10(_)
Pow10(k) == IF k = 0 THEN 1 ELSE 10 * Pow10(k - 1)

RECURSIVE PlaceSum(_, _)
PlaceSum(s, i) ==
  IF i > Len(s) THEN 0
  ELSE DigitVal(s[i]) * Pow10(Len(s) - i) + PlaceSum(s, i + 1)

\* the number a decimal numeral denotes
NumeralValue(s) == PlaceSum(s, 1)

\* the page / limit of a list request: as received, the default when absent
ReceivedOr(o, d) == IF o = None THEN d ELSE Val(o)

\* C5: a list request whose page and limit (1 and 10 when absent) are decimal
\* numerals >= 1 is forwarded with the same page and limit and with
\* offset = (page - 1) * limit.
C5_OffsetForwarded ==
  Handled(ListHandlers) =>
    LET p == ReceivedOr(request.page, <<"1">>)
        l == ReceivedOr(request.limit, <<"1", "0">>)
    IN (IsNumeral(p) /\ NumeralValue(p) >= 1
        /\ IsNumeral(l) /\ NumeralValue(l) >= 1) =>
         /\ outbound.page = Some(p)
         /\ outbound.limit = Some(l)
         /\ IsSome(outbound.offset)
         /\ IsNumeral(Val(outbound.offset))
         /\ NumeralValue(Val(outbound.offset))
              = (NumeralValue(p) - 1) * NumeralValue(l)

\* page 2 with the default limit has been forwarded with offset 10
C5_Witness ==
  /\ Handled(ListHandlers)
  /\ request.page = Some(<<"2">>)
  /\ request.limit = None
  /\ outbound.page = Some(<<"2">>)
  /\ outbound.limit = Some(<<"1", "0">>)
  /\ outbound.offset = Some(<<"1", "0">>)

NonBlank(search) == IsSome(search) /\ trim(Val(search)) # <<>>

\* C6: on the list path the search parameter goes onward exactly when the
\* search string is non-empty after trimming, in the proxy list handler and in
\* the client wrapper's getProducts.
C6_SearchIffNonBlank ==
  /\ Handled(ListHandlers) =>
       (IsSome(outbound.search) <=> NonBlank(request.search))
  /\ (pc = "returned" /\ clientRequest # NoCall
      /\ clientRequest.path = "/products") =>
       (IsSome(clientRequest.search) <=> NonBlank(clientCall.params.search))

\* C7: a handler that calls the backend sends the incoming Authorization
\* header value as it came, sends none when none came, and never answers 401
\* on its own.
C7_AuthorizationUnchanged ==
  Handled(ProxyHandlers) =>
    /\ (outbound # NoCall /\ Truthy(request.auth))
         => outbound.auth = request.auth
    /\ (outbound # NoCall /\ request.auth = None) => outbound.auth = None
    /\ outbound = NoCall => response.http # 401

\* C8: a single-product GET without a product id (neither product_id nor
\* productId given, or given empty) is answered 400 / MISSING_PRODUCT_ID with
\* data null and HTTP 400, and no backend call is made.
C8_MissingProductId ==
  (Handled(GetHandlers) /\ ~Truthy(request.product_id)
   /\ ~Truthy(request.productId)) =>
    /\ outbound = NoCall
    /\ response.http = 400
    /\ IsFailure(response.body, <<"4", "0", "0">>, "MISSING_PRODUCT_ID",
                 DataNull)

\* C9: a backend 404 on a single-product GET is answered 404 /
\* PRODUCT_NOT_FOUND with data null and HTTP 404.
C9_NotFound ==
  (Handled(GetHandlers) /\ backend.kind = "http" /\ backend.status = 404) =>
    /\ response.http = 404
    /\ IsFailure(response.body, <<"4", "0", "4">>, "PRODUCT_NOT_FOUND",
                 DataNull)

\* C10: the create handler calls the backend only with a non-empty
\* product_title and a numeric product_price >= 0; a missing title or price
\* is answered VALIDATION_ERROR, a non-numeric or negative price INVALID_PRICE,
\* both with HTTP 400 and without a backend call.
C10_CreateValidation ==
  (Handled(PostHandlers) /\ request.body.parsed) =>
    LET title == request.body.product_title
        price == request.body.product_price
        missing == Nullish(title) \/ Nullish(price)
        badPrice == price.t # "number" \/ price.n < 0
    IN /\ outbound # NoCall =>
            title.t = "string" /\ title.s # <<>>
            /\ price.t = "number" /\ price.n >= 0
       /\ missing =>
            outbound = NoCall /\ response.http = 400
            /\ IsFailure(response.body, <<"4", "0", "0">>,
                         "VALIDATION_ERROR", DataNull)
       /\ (~missing /\ title.s # <<>> /\ badPrice) =>
            outbound = NoCall /\ response.http = 400
            /\ IsFailure(response.body, <<"4", "0", "0">>, "INVALID_PRICE",
                         DataNull)

WriteHandlers == PostHandlers \cup PutHandlers

\* the tag and status the write handlers are to give a failed backend call
WriteFailureTag(handler, o) ==
  LET st == IF o.kind = "http" THEN o.status ELSE 0
  IN IF handler \in PostHandlers
     THEN CASE st = 400 -> [code |-> 400, tag |-> "VALIDATION_ERROR"]
            [] st = 409 -> [code |-> 409, tag |-> "PRODUCT_EXISTS"]
            [] OTHER -> [code |-> 500, tag |-> "INTERNAL_SERVER_ERROR"]
     ELSE CASE st = 404 -> [code |-> 404, tag |-> "PRODUCT_NOT_FOUND"]
            [] st = 400 -> [code |-> 400, tag |-> "VALIDATION_ERROR"]
            [] OTHER -> [code |-> 500, tag |-> "INTERNAL_SERVER_ERROR"]

\* C11: a failed backend call of a write handler is answered, for create, 400 /
\* VALIDATION_ERROR on a backend 400, 409 / PRODUCT_EXISTS on a backend 409 and
\* 500 / INTERNAL_SERVER_ERROR otherwise; for update, 404 / PRODUCT_NOT_FOUND
\* on a backend 404, 400 / VALIDATION_ERROR on a backend 400 and 500 /
\* INTERNAL_SERVER_ERROR otherwise; the HTTP status is the number status_code
\* spells.
C11_WriteFailureTags ==
  (Handled(WriteHandlers) /\ backend.kind \in {"http", "timeout", "network"}) =>
    LET want == WriteFailureTag(request.handler, backend)
    IN /\ response.http = want.code
       /\ IsFailure(response.body, NatToString(want.code), want.tag, DataNull)
       /\ NumeralValue(response.body.status_code) = response.http

\* C12: the update handler answers a body without product_id with
\* MISSING_PRODUCT_ID and a present non-numeric or negative product_price with
\* INVALID_PRICE, both without a backend call; every other body goes out
\* unchanged in one PUT to the backend's single-product endpoint.
C12_UpdateValidation ==
  (Handled(PutHandlers) /\ request.body.parsed) =>
    LET id == request.body.product_id
        price == request.body.product_price
        badPrice == ~Nullish(price) /\ (price.t # "number" \/ price.n < 0)
    IN /\ Nullish(id) =>
            outbound = NoCall /\ response.http = 400
            /\ IsFailure(response.body, <<"4", "0", "0">>,
                         "MISSING_PRODUCT_ID", DataNull)
       /\ (~Falsy(id) /\ badPrice) =>
            outbound = NoCall /\ response.http = 400
            /\ IsFailure(response.body, <<"4", "0", "0">>, "INVALID_PRICE",
                         DataNull)
       /\ (~Falsy(id) /\ ~badPrice) =>
            /\ outbound # NoCall
            /\ outbound.method = "PUT"
            /\ outbound.path = "/product"
            /\ outbound.body = request.body

Variants == {"handled", "defaults", "token", "bearer"}

\* the methods of the wrapper, by operation
MethodsOf(op) ==
  CASE op = "list" -> {"getProducts_handled", "getProducts_defaults",
                       "getProducts_token", "getProducts_bearer"}
    [] op = "get" -> {"getProduct_handled", "getProduct_defaults",
                      "getProduct_token", "getProduct_bearer"}
    [] op = "create" -> {"createProduct_handled", "createProduct_defaults",
                         "createProduct_token", "createProduct_bearer"}
    [] op = "update" -> {"updateProduct_handled", "updateProduct_defaults",
                         "updateProduct_token", "updateProduct_bearer"}

Returned(op) == pc = "returned" /\ clientCall.method \in MethodsOf(op)

FailureCodeOf(op) ==
  CASE op = "list" -> "FETCH_PRODUCTS_ERROR"
    [] op = "get" -> "FETCH_PRODUCT_ERROR"
    [] op = "create" -> "CREATE_PRODUCT_ERROR"
    [] op = "update" -> "UPDATE_PRODUCT_ERROR"

TransportFailed == transport.kind \in {"http", "timeout", "network"}

\* C13: when the request of a wrapper method (list, get, create, update) fails
\* in transport (non-2xx answer, timeout, or no answer), the method returns an
\* envelope with is_success false and its own error_code; a method throws only
\* when its own pre-flight check failed, that is, without having sent anything.
C13_TransportFailureEnvelope ==
  \A op \in {"list", "get", "create", "update"} :
    /\ (Returned(op) /\ TransportFailed) =>
         /\ ~clientResult.thrown
         /\ SuccessIffNoError(clientResult.value)
         /\ clientResult.value.is_success = FALSE
         /\ clientResult.value.error_code = Some(FailureCodeOf(op))
    /\ (Returned(op) /\ clientResult.thrown) => clientRequest = NoCall

\* the call ended on an error raised by the method's own code
RejectedLocally ==
  pc = "returned" /\ "local" \in DOMAIN clientCall /\ IsSome(clientCall.local)

\* C14: a call the wrapper rejects in its own code (blank id in getProduct or
\* updateProduct, failed validation in createProduct or updateProduct) issues
\* no HTTP request, and in createProduct and updateProduct the rejection
\* reaches the caller as an exception with the validation message.
C14_LocalRejectionSendsNothing ==
  RejectedLocally =>
    /\ clientRequest = NoCall
    /\ transport = NoOutcome
    /\ clientCall.method \in MethodsOf("create") \cup MethodsOf("update") =>
         /\ clientResult.thrown
         /\ clientResult.value.message = Val(clientCall.local).message

\* a blank id and a payload without a title have been rejected by
\* getProduct, updateProduct and createProduct of the error-handling client
C14_Witness ==
  /\ RejectedLocally
  /\ clientRequest = NoCall
  /\ \/ /\ clientCall.method = "createProduct_handled"
        /\ clientCall.params.data.product_title = JUndef
        /\ clientResult.thrown
     \/ /\ clientCall.method = "updateProduct_handled"
        /\ clientCall.params.productId = <<" ">>
        /\ clientResult.thrown
     \/ /\ clientCall.method = "getProduct_handled"
        /\ clientCall.params.productId = <<" ">>
        /\ ~clientResult.thrown

\* str without the blanks before its first and after its last other character
Stripped(str) ==
  IF \A i \in 1..Len(str) : str[i] = " " THEN <<>>
  ELSE LET n == Len(str)
           lead == CHOOSE k \in 0..(n - 1) :
                     str[k + 1] # " " /\ \A j \in 1..k : str[j] = " "
           trail == CHOOSE k \in 0..(n - 1) :
                      str[n - k] # " " /\ \A j \in (n - k + 1)..n : str[j] = " "
       IN SubSeq(str, lead + 1, n - trail)

\* a field of an update the create validation would refuse
RefusedByCreate(data) ==
  LET title == data.product_title
      price == data.product_price
      description == data.product_description
      category == data.product_category
      image == data.product_image
  IN \/ title.t = "string"
        /\ (Len(Stripped(title.s)) < TitleMinLen \/ Len(Stripped(title.s)) > TitleMaxLen)
     \/ price.t = "number" /\ ~IsNaN(price)
        /\ (price.n < 0 \/ price.n > PriceMax)
     \/ description.t = "string" /\ Len(description.s) > DescriptionMaxLen
     \/ category.t = "string" /\ Len(category.s) > CategoryMaxLen
     \/ image.t = "string"
        /\ (Len(image.s) > ImageMaxLen
            \/ (Stripped(image.s) # <<>> /\ ~IsUrl(image.s)))

\* C15: an update whose title has trimmed length outside 2..200, whose price
\* is outside [0, 999999.99], whose description is over 1000, category over
\* 100 or image over 500 characters, or whose image is not a URL, is rejected
\* by the wrapper and not sent.
C15_UpdateValidatedAsCreate ==
  (Returned("update") /\ RefusedByCreate(clientCall.params.data)) =>
    clientRequest = NoCall /\ clientResult.thrown

\* the fields other than f pass the create validation
OthersValid(data, f) ==
  LET d == [data EXCEPT ![f] = ValidData[f]]
  IN /\ d.product_title.t = "string"
     /\ d.product_price.t = "number"
     /\ ~RefusedByCreate(d)

Validated == pc = "validated" /\ clientCall.method = "validateProductData"

Accepted == clientResult.value = None

\* C16: with the other fields valid, validateProductData accepts the payload
\* exactly when product_title is a string whose length after trimming is
\* between 2 and 200, both included.
C16_TitleLength ==
  (Validated /\ OthersValid(clientCall.params.data, "product_title")) =>
    LET title == clientCall.params.data.product_title
    IN Accepted <=>
         /\ title.t = "string"
         /\ Len(Stripped(title.s)) >= 2
         /\ Len(Stripped(title.s)) <= 200

\* a title of 200 characters between blanks has been accepted
C16_Witness ==
  /\ Validated
  /\ OthersValid(clientCall.params.data, "product_title")
  /\ clientCall.params.data.product_title = JStr(Padded("t", 200, 1))
  /\ Accepted

Trimmed(str) == str = <<>> \/ (str[1] # " " /\ str[Len(str)] # " ")

\* the cleaned text of field f: the input without its surrounding blanks
CleanedText(in, out, f) ==
  in[f].t = "string" =>
    LET text == Stripped(in[f].s)
    IN text # <<>> =>
         out[f].t = "string" /\ out[f].s = text /\ Trimmed(out[f].s)

TextFields ==
  {"product_title", "product_description", "product_category", "product_image"}

\* C18: cleanProductData gives the price as whole cents, the nearest to the
\* input with half a cent going up (19.999 gives 20.00), gives every text
\* field without surrounding blanks, and returns its own result unchanged
\* when applied to it, also for payloads with empty or blank optional fields.
C18_CleanIdempotent ==
  /\ pc = "cleaned" =>
       LET in == clientCall.params.data
           out == clientResult.value
       IN /\ (in.product_price.t = "number" /\ ~IsNaN(in.product_price)) =>
               /\ out.product_price.t = "number"
               /\ out.product_price.n % 10 = 0
               /\ out.product_price.n - in.product_price.n \in -4..5
          /\ in.product_price = JNum(19999) => out.product_price = JNum(20000)
          /\ \A f \in TextFields : CleanedText(in, out, f)
          /\ cleanProductData(out) = out
  /\ pc = "recleaned" => clientResult.value = clientCall.params.data

\* a payload with price 19.999 and a blank description has been cleaned, and
\* cleaned again: the price is 20.00 and the description is gone
C18_Witness ==
  /\ pc = "recleaned"
  /\ clientCall.params.data.product_price = JNum(20000)
  /\ clientCall.params.data.product_description = JUndef
  /\ clientCall.params.data.product_title = JStr(Rep("t", 2))
  /\ clientResult.value = clientCall.params.data

\* C19: every fetch a page sends while a user is signed in carries that
\* user's token in the Authorization header, the first fetch after the mount
\* included; without a user, or when the token cannot be got, the fetch is
\* sent without a token.
C19_TokenAttached ==
  ui.fetched # NoFetch =>
    /\ (IsSome(ui.user) /\ ~ui.tokenFails) =>
         ui.fetched.request.auth = ui.user
    /\ (~IsSome(ui.user) \/ ui.tokenFails) => ui.fetched.request.auth = None

Typing == ui.burst > 0 /\ ui.timer # Off

Settled == ui.burst > 0 /\ ui.timer = Off

\* the last fetch started is the one the search made, not a later one for a
\* page click or after a save
SearchFetchIsLast == ui.fetched.cause \notin {"page", "save"}

\* C20 as stated: while changes of the search term follow each other within
\* the delay no search fetch is made, and once the delay has passed after the
\* last change exactly one has been made, with the last value.
C20_OneFetchPerBurst ==
  /\ Typing => ui.searchFetches = 0
  /\ Settled =>
       /\ ui.searchFetches = 1
       /\ SearchFetchIsLast =>
            /\ ui.fetched.cause = "search"
            /\ ui.fetched.search = ui.searchTerm

\* the timer of useDebounce fires after a burst
HookFires ==
  /\ ui.draft = "ProductsPage"
  /\ ui.burst > 0
  /\ ui.timer = 0
  /\ ui'.timer = Off

\* C20, amended: every change of the search term restarts the timer, so no
\* search fetch is made while changes follow each other within the delay; when
\* the delay has passed after the last change at most one search fetch has been
\* made, 300 ms after that change and with the last value. The Dashboard makes
\* exactly one; the pages with useDebounce make one exactly when the last value
\* differs from the value searched before the burst, and none otherwise.
C20_Debounced ==
  /\ [](/\ Typing => ui.searchFetches = 0
        /\ Settled =>
             /\ ui.searchFetches <= 1
             /\ (ui.searchFetches = 1 /\ SearchFetchIsLast) =>
                  /\ ui.fetched.cause = "search"
                  /\ ui.fetched.search = ui.searchTerm
                  /\ ui.fetched.quiet = DebounceMs
             /\ ui.draft = "Dashboard" => ui.searchFetches = 1
             /\ ui.draft = "ProductsPage" =>
                  ui.debouncedSearchTerm = ui.searchTerm)
  /\ [][HookFires =>
          (ui'.searchFetches = 1 <=> ui.searchTerm # ui.debouncedSearchTerm)]_vars

\* after two changes within the delay, the second giving "aa", one search
\* fetch has been made, for "aa"
C20_Witness ==
  /\ Settled
  /\ ui.burst >= 2
  /\ ui.searchTerm = <<"a", "a">>
  /\ ui.searchFetches = 1
  /\ ui.fetched.cause = "search"
  /\ ui.fetched.search = <<"a", "a">>

\* the fetch that has just been answered, and how
Answered == ui.resumed.cause = "fetch"

AnsweredOk == Answered /\ ui.resumed.outcome = "ok"

AnsweredFailed == Answered /\ ui.resumed.outcome # "ok"

\* C21: whenever the debounced search term changes, to the empty string
\* included, currentPage is 1 and the fetch the change starts asks for page 1;
\* currentPage is still 1 when that fetch has been answered, with the list or
\* with a failure.
C21_PageReset ==
  (ui.fetched.cause = "search" /\ (ui.inflight # <<>> \/ Answered)) =>
    /\ ui.fetched.request.page = Some(<<"1">>)
    /\ ui.currentPage = 1

\* a fetch that was superseded by a later one is answered in this step
SupersededAnswered ==
  /\ ui'.resumed.cause = "fetch"
  /\ ~ui'.resumed.fetch.latest

\* C22: the answer to a fetch after which another fetch has been started is
\* discarded: it changes neither the products and total shown nor currentPage,
\* so that what is shown belongs to the fetch started last.
C22_LatestWins ==
  [][SupersededAnswered =>
       (ui'.shown = ui.shown /\ ui'.currentPage = ui.currentPage)]_vars

\* C23: a fetch that fails (a failure envelope or an exception) leaves the
\* products and total shown and currentPage as they were before the fetch was
\* started, also when a page click started it; only loading and the
\* notification change. (For a fetch a search change started, currentPage is
\* compared as the reset to page 1 left it.)
C23_FailureKeepsState ==
  /\ [](AnsweredFailed =>
          /\ ui.resumed.notice = "error"
          /\ ~ui.loading
          /\ ui.fetched.cause # "search" =>
               ui.currentPage = ui.resumed.fetch.before)
  /\ [][(ui'.resumed.cause = "fetch" /\ ui'.resumed.outcome # "ok") =>
          (ui'.shown = ui.shown /\ ui'.currentPage = ui.currentPage)]_vars

\* a page click starts a fetch in this step
PageClicked ==
  /\ ui'.fetched.cause = "page"
  /\ Len(ui'.inflight) > Len(ui.inflight)

\* the search term the page has committed to: debouncedSearchTerm, and on the
\* Dashboard, which keeps no such state, searchTerm once its timer has fired
CommittedSearch ==
  IF ui.draft = "ProductsPage" THEN ui.debouncedSearchTerm ELSE ui.searchTerm

\* C24: a page click while no debounce timer is pending starts a fetch of the
\* clicked page with the committed search term and leaves searchTerm and
\* debouncedSearchTerm as they are; when that fetch has succeeded, currentPage
\* is the clicked page.
C24_PageClick ==
  /\ [][(PageClicked /\ ui.timer = Off) =>
          /\ ui'.searchTerm = ui.searchTerm
          /\ ui'.debouncedSearchTerm = ui.debouncedSearchTerm
          /\ ui.searchTerm = CommittedSearch
          /\ ui'.fetched.search = CommittedSearch
          /\ ui'.fetched.request.search =
               (IF CommittedSearch = <<>> THEN None ELSE Some(CommittedSearch))
          /\ ui'.fetched.request.page =
               Some(NatToString(ui'.inflight[Len(ui'.inflight)].page))
          /\ ui.draft = "ProductsPage" =>
               ui'.inflight[Len(ui'.inflight)].page = ui'.currentPage]_vars
  /\ []((AnsweredOk /\ ui.fetched.cause = "page") =>
          /\ ui.fetched.request.page = Some(NatToString(ui.currentPage))
          /\ ui.currentPage = ui.resumed.fetch.page
          /\ ui.shown = [page |-> ui.currentPage,
                         search |-> ui.fetched.search])

\* page 2 of the search for "a" was clicked with no timer pending, and the
\* fetch has succeeded
C24_Witness ==
  /\ AnsweredOk
  /\ ui.fetched.cause = "page"
  /\ ui.timer = Off
  /\ ui.searchTerm = <<"a">>
  /\ ui.fetched.search = <<"a">>
  /\ ui.fetched.request.page = Some(<<"2">>)
  /\ ui.currentPage = 2
  /\ ui.shown = [page |-> 2, search |-> <<"a">>]

\* C27: loading is true exactly while at least one fetch is in flight.
C27_LoadingWhileInFlight ==
  ui.mounted => (ui.loading <=> ui.inflight # <<>>)

\* C28: a success notification for create or update is shown, and the modal is
\* closed, only if the call returned an envelope with is_success true.
C28_SuccessOnlyIfSaved ==
  ui.resumed.cause = "save" =>
    /\ ui.resumed.notice = "success" => ui.resumed.outcome = "ok"
    /\ ui.modal = "closed" => ui.resumed.outcome = "ok"

\* the prices of the loaded products, and their categories that are neither
\* missing nor empty
PriceAt(i) == ui.products[i].product_price

NamedCategories ==
  {c \in {ui.products[i].product_category : i \in 1..Len(ui.products)} :
     c.t = "string" /\ c.s # <<>>}

\* C25: for the loaded products every statistics aggregator returns the sum
\* of the prices as total value, total value / number of products as average
\* price (0 for no products), and as category count the number of distinct
\* categories, compared case-sensitively, to which a product with a missing
\* category adds nothing.
C25_Stats ==
  pc = "computed" =>
    LET n == Len(ui.products)
    IN /\ \/ n = 0 /\ ui.result.totalValue = 0
          \/ n = 1 /\ ui.result.totalValue = PriceAt(1)
          \/ n = 2 /\ ui.result.totalValue = PriceAt(1) + PriceAt(2)
          \/ n > 2
       /\ ui.result.averagePrice =
            (IF n = 0 THEN [num |-> 0, den |-> 1]
             ELSE [num |-> ui.result.totalValue, den |-> n])
       /\ ui.result.totalCategories = Cardinality(NamedCategories)

\* C26: a timeout of the outbound call of any proxy handler (list, single
\* get, create, update) is answered with status_code "408" and error_code
\* REQUEST_TIMEOUT, never with the generic INTERNAL_SERVER_ERROR.
C26_TimeoutCode ==
  (Handled(ProxyHandlers) /\ backend.kind = "timeout") =>
    /\ WellFormed(response.body)
    /\ response.body.status_code = <<"4", "0", "8">>
    /\ response.body.error_code = Some("REQUEST_TIMEOUT")

\* C29: once a signIn, signUp or logout attempt has completed, accepted or
\* rejected by the identity provider, and the listener has been told of every
\* auth state change, loading is false: a failed signIn does not leave it at
\* true.
C29_LoadingReturns ==
  (pc = "auth" /\ ui.last.op # "none" /\ ui.events = <<>>) => ~ui.loading

\* the src prop names loremflickr.com
FromLoremFlickr ==
  \E i \in 1..Len(ui.src) :
    /\ i + 14 <= Len(ui.src)
    /\ \A k \in 0..14 : ui.src[i + k] = LoremFlickr[k + 1]

\* C30: for a non-empty src the retry chain ends: the third consecutive load
\* error at the latest leaves the component in the imageError state, which
\* shows the placeholder and loads nothing more; useProxy, useAlternative and
\* imageError only change from false to true; and the proxy URL is tried only
\* for a src from loremflickr.com.
C30_RetryChainEnds ==
  /\ [](pc = "image" =>
          /\ ui.errors <= 3
          /\ ui.errors = 3 => ui.imageError
          /\ (ui.useProxy \/ "proxy" \in ui.tried) => FromLoremFlickr
          /\ ui.src = <<>> => ui.errors = 0)
  /\ [][/\ ui.useProxy => ui'.useProxy
        /\ ui.useAlternative => ui'.useAlternative
        /\ ui.imageError => ui'.imageError]_vars

\* a loremflickr image failed three times, as itself, through the proxy and
\* from the alternative service, and the placeholder is shown
C30_Witness ==
  /\ pc = "image"
  /\ FromLoremFlickr
  /\ ui.errors = 3
  /\ ui.tried = {"src", "proxy", "alternative"}
  /\ ui.useProxy /\ ui.useAlternative /\ ui.imageError

====
